---- MODULE Spec2Model ----
(***************************************************************************)
(* Model of aurora-biologic: the pipeline registry and command dispatcher  *)
(* of BiologicAPI (aurora_biologic/biologic.py) and the relay daemon       *)
(* (aurora_biologic/cli/daemon.py) whose workers run the CLI               *)
(* (aurora_biologic/cli/main.py) against one shared EC-lab instance.       *)
(***************************************************************************)
EXTENDS Integers, Sequences, FiniteSets, TLC

(***************************************************************************)
(* Bounds of the model.                                                    *)
(***************************************************************************)
\* device ordinals whose GetDeviceSN report varies; the others are empty
MaxDevices == 2
\* channels a device reports at most
MaxChannels == 2
\* daemon workers (connections serviced at the same time)
NumWorkers == 2
\* length of the id list handed to get_job_id
MaxIds == 2

(***************************************************************************)
(* Program constants.                                                      *)
(***************************************************************************)
\* for i in range(17)
ScanRange == 17

\* Python's None
None == "None"

Workers == 1..NumWorkers

(***************************************************************************)
(* Python dict: insertion-ordered keys, one value per key.                 *)
(***************************************************************************)
EmptyDict == [keys |-> <<>>, items |-> <<>>]

DictHas(d, k) == k \in DOMAIN d.items

\* d[k] = v : a new key goes last, an existing key keeps its place
DictSet(d, k, v) ==
    [keys  |-> IF DictHas(d, k) THEN d.keys ELSE Append(d.keys, k),
     items |-> (k :> v) @@ d.items]

\* d.get(k)
DictGet(d, k) == IF DictHas(d, k) THEN d.items[k] ELSE None

(***************************************************************************)
(* The environment: what EC-lab reports, and the configuration.            *)
(***************************************************************************)
\* serial numbers a device may report (0: device not initialized)
Serials == {0, 123, 999}

\* channel serial numbers reported by device ordinal i with serial sn
ChannelSNs(i, sn, n) == [j \in 1..n |-> IF sn = 0 THEN 0 ELSE 1000 * (i + 6) + j]

DeviceReports(i) ==
    { [sn |-> sn, channel_sns |-> ChannelSNs(i, sn, n), success |-> s] :
        sn \in Serials, n \in 0..MaxChannels, s \in {0, 1} }

\* every enumeration result within the bounds; no two devices have the same
\* serial number
AllReports ==
    { d \in [0..(MaxDevices - 1) -> UNION { DeviceReports(i) : i \in 0..(MaxDevices - 1) }] :
        /\ \A i \in 0..(MaxDevices - 1) : d[i] \in DeviceReports(i)
        /\ \A i, k \in 0..(MaxDevices - 1) :
              (i # k /\ d[i].sn # 0) => d[i].sn # d[k].sn }

\* serial_to_name of the configuration file
Configs == { (123 :> "MPG2-1") @@ (456 :> "hello?") }

\* configuration files for the registry: also one that gives two serial
\* numbers the same device name
RegistryConfigs == Configs \cup { (123 :> "MPG2-1") @@ (999 :> "MPG2-1") }

VARIABLES
    devices,          \* EC-lab: GetDeviceSN's answer per device ordinal
    serial_to_name,   \* configuration: serial number -> device name
    eclab,            \* EC-lab: the flag each command returns
    selected,         \* EC-lab: the currently selected channel
    pipelines,        \* per session: self.pipelines
    pc,               \* per session: where it is in its code
    frame,            \* per session: the operation being executed and its locals
    calls,            \* per session: the driver calls of the current operation
    result,           \* per session: how the last operation ended
    history,          \* the last load_settings, run_channel and start that ended
    request,          \* per daemon worker: the connection's request
    listener,         \* the daemon: the accept loop of start_daemon
    conn,             \* per daemon worker: its connection
    client            \* per daemon worker: the send_command at the other end

vars == <<devices, serial_to_name, eclab, selected, pipelines, pc, frame,
          calls, result, history, request, listener, conn, client>>

\* self.eclab.GetDeviceSN(i)
GetDeviceSN(i) ==
    IF i < MaxDevices THEN devices[i]
    ELSE [sn |-> 0, channel_sns |-> <<0, 0, 0, 0>>, success |-> 0]

(***************************************************************************)
(* Pipeline registry.                                                      *)
(***************************************************************************)
\* a device name is a configured string or, when unmapped, the serial number
StrName(s) == [str |-> s]
IntName(n) == [int |-> n]

\* how an f-string renders a device name
Format(device_name) ==
    IF "int" \in DOMAIN device_name THEN ToString(device_name.int)
    ELSE device_name.str

\* f"{device_name}-{j + 1}"
pipeline_id(device_name, j) == Format(device_name) \o "-" \o ToString(j + 1)

\* device_name = serial_to_name.get(sn); if not device_name: device_name = sn
resolve_device_name(sn) ==
    IF sn \in DOMAIN serial_to_name /\ serial_to_name[sn] # ""
    THEN StrName(serial_to_name[sn])
    ELSE IntName(sn)

\* for j, channel_sn in enumerate(channel_sns): devices[pipeline_id] = {...}
RECURSIVE channel_loop(_, _, _, _, _)
channel_loop(devs, i, sn, channel_sns, j) ==
    IF j >= Len(channel_sns) THEN devs
    ELSE channel_loop(
            DictSet(devs, pipeline_id(resolve_device_name(sn), j),
                    [device_name           |-> resolve_device_name(sn),
                     device_index          |-> i,
                     device_serial_number  |-> sn,
                     channel_index         |-> j,
                     channel_serial_number |-> channel_sns[j + 1]]),
            i, sn, channel_sns, j + 1)

\* the device is skipped: no success, or serial number 0
skip_device(r) == r.success = 0 \/ r.sn = 0

\* for i in range(17): ...
RECURSIVE device_loop(_, _)
device_loop(devs, i) ==
    IF i >= ScanRange THEN devs
    ELSE LET r == GetDeviceSN(i) IN
         IF skip_device(r) THEN device_loop(devs, i + 1)
         ELSE device_loop(channel_loop(devs, i, r.sn, r.channel_sns, 0), i + 1)

get_all_pipelines == device_loop(EmptyDict, 0)

(***************************************************************************)
(* The file system the paths of the arguments refer to.                    *)
(***************************************************************************)
\* paths that exist: a settings file and a directory
ExistingPaths == {"settings.mps", "tmpdir"}
\* paths that are directories
Directories == {"tmpdir"}
\* settings_file.exists()
exists(path) == path \in ExistingPaths

SettingsArgs == {"settings.mps", "missing.mps"}
OutputArgs == {"some-output.mpr", "tmpdir"}

(***************************************************************************)
(* Status decoding and the experiment folder.                              *)
(***************************************************************************)
\* status_nested_codes[0]: the names of the raw codes of the "Status" field
status_names ==
    (0 :> "Stop") @@ (1 :> "Run") @@ (2 :> "Pause") @@ (3 :> "Sync") @@
    (4 :> "Stop_rec1") @@ (5 :> "Stop_rec2") @@ (6 :> "Pause_rec")

\* raw codes MeasureStatus may report in the "Status" position
RawStatus == {0, 1, 6, 7}

\* _human_readable_status(status)["Status"]: .get(s, s) keeps an unnamed code
human_readable_status(raw) ==
    IF raw \in DOMAIN status_names THEN status_names[raw] ELSE ToString(raw)

\* every status but "Stop" taken as active
is_active_not_stop(status) == status # "Stop"

\* status[pid].get("Status", {}) in ["Run", "Pause", "Sync", "Pause_rec"]
is_active(status) == status \in {"Run", "Pause", "Sync", "Pause_rec"}

\* a folder path is a sequence of characters; Sep is the backslash
Sep == "\\"
MaxFolderLen == 2
FolderChars == {"j", Sep}
StrOfLen(n) == [1..n -> FolderChars]
Folders == UNION { StrOfLen(n) : n \in 0..MaxFolderLen }

\* s.split(sep): the segments between the separators, empty ones included
RECURSIVE split_from(_, _, _, _)
split_from(s, i, cur, acc) ==
    IF i > Len(s) THEN Append(acc, cur)
    ELSE IF s[i] = Sep THEN split_from(s, i + 1, <<>>, Append(acc, cur))
    ELSE split_from(s, i + 1, Append(cur, s[i]), acc)

split(s) == split_from(s, 1, <<>>, <<>>)

Timestamps == {None, "2025-11-10 15:22:09.494"}

\* what GetExperimentInfos may answer: start, end, folder (None: NoFolder) and
\* the result flag; a failed query names no folder, and folders vary for the
\* experiments that have a start
NoFolder == <<None>>
ExperimentInfos ==
    { i \in [start : Timestamps, end : Timestamps,
              folder : Folders \cup {NoFolder}, result : {0, 1}] :
        /\ i.result = 0 => i.folder = NoFolder
        /\ i.start = None => i.folder \in {NoFolder, <<>>} }

(***************************************************************************)
(* Results of an operation: what it returned or the exception it raised.   *)
(***************************************************************************)
NoResult == [exc |-> "none", value |-> <<>>]
Running == [exc |-> "running", value |-> <<>>]
Return(v) == [exc |-> "return", value |-> <<v>>]
Raise(e, msg) == [exc |-> e, value |-> <<msg>>]

FileNotFoundError == Raise("FileNotFoundError", "")
NotKnown == Raise("ValueError", "not known as a pipeline")
FailedSwitch == Raise("ValueError", "Failed to switch channel")
FailedLoad == Raise("ValueError", "Failed to load settings.")
FailedRun == Raise("ValueError", "Failed to start measurement.")
FailedStop == Raise("ValueError", "Failed to stop measurement.")
\* a call with a keyword argument the signature does not have
UnexpectedKeyword == Raise("TypeError", "got an unexpected keyword argument 'show_offline'")
AttributeError == Raise("AttributeError", "'NoneType' object has no attribute 'split'")
IndexError == Raise("IndexError", "list index out of range")

\* a connection: the peer ("none": no connection, "open", or "gone": the
\* client has disconnected), the data sendall has written, whether
\* subprocess.run was called, the exception that is being handled or that
\* propagates ("": none), and whether the thread of the worker's previous
\* connection ended with an exception
NoConn == [peer |-> "none", sent |-> <<>>, ran |-> FALSE, raised |-> "", crashed |-> FALSE]

\* a send_command: where it is ("none": no send_command modelled), the
\* command, the chunks recv_all has got, whether the daemon has closed the
\* connection, the text returned, the exit status and what was logged
NoClient ==
    [pc |-> "none", message |-> <<>>, received |-> <<>>, eof |-> FALSE,
     returned |-> <<>>, status |-> 0, log |-> ""]

\* flags a driver command may return; exactly 1 is success
DriverRets == {0, 1, 2}

(***************************************************************************)
(* A session (one BiologicAPI object) and the operation it executes.       *)
(***************************************************************************)
\* the id the tests give channel j of a device ordinal i that reports serial 0
OfflineId(i, j) == "OFFLINE-" \o ToString(i) \o "-" \o ToString(j)

\* pipeline ids a caller passes
PipelineArgs == {"MPG2-1-1", "999-1", OfflineId(1, 1), "doesntexist"}

\* id lists a caller passes to get_job_id; None and [] both count as "no ids"
IdArgs == UNION { [1..n -> PipelineArgs \ {OfflineId(1, 1)}] : n \in 0..MaxIds }

NewFrame(op, pipeline, settings_file, output_path, pipeline_ids) ==
    [op            |-> op,             \* the operation the caller invoked
     arg_ids       |-> pipeline_ids,   \* get_status, get_job_id: the ids passed
     callee        |-> op,             \* the method that is executing
     pipeline      |-> pipeline,
     settings_file |-> settings_file,
     output_path   |-> output_path,
     pipeline_ids  |-> pipeline_ids,   \* get_status, get_job_id: pipeline_ids
     todo          |-> <<>>,           \* get_status: ids still to measure
     status        |-> EmptyDict,      \* get_job_id: status
     k             |-> 1,              \* get_job_id: position of the for loop
     start         |-> None,           \* get_job_id: start, end, folder
     end           |-> None,
     folder        |-> NoFolder,
     job_ids       |-> EmptyDict,      \* get_job_id: job_ids
     show_offline  |-> FALSE]          \* the call was made with show_offline=True

NoFrame == NewFrame("", "", "", "", <<>>)

\* self.get_pipeline(pipeline): None stands for the ValueError
get_pipeline(w, pipeline) == DictGet(pipelines[w], pipeline)

\* the code of a method up to its first driver call: the result it raises,
\* or Running when it goes on to select_pipeline
settings_file_checked(callee) == callee = "load_settings"

\* the pipeline looked up before the settings file
entry_pipeline_first(w, callee, pipeline, settings_file) ==
    IF ~DictHas(pipelines[w], pipeline) THEN NotKnown
    ELSE IF settings_file_checked(callee) /\ ~exists(settings_file) THEN FileNotFoundError
    ELSE Running

\* self.pipelines[pipeline] in place of self.pipelines.get(pipeline)
entry_keyerror(w, callee, pipeline, settings_file) ==
    IF settings_file_checked(callee) /\ ~exists(settings_file) THEN FileNotFoundError
    ELSE IF ~DictHas(pipelines[w], pipeline) THEN Raise("KeyError", pipeline)
    ELSE Running

entry(w, callee, pipeline, settings_file) ==
    IF settings_file_checked(callee) /\ ~exists(settings_file) THEN FileNotFoundError
    ELSE IF ~DictHas(pipelines[w], pipeline) THEN NotKnown
    ELSE Running

\* a driver call as the session issued it; selected is EC-lab's selected
\* channel at the moment of the call
DriverCall(name, pipeline, p, ret) ==
    [name          |-> name,
     pipeline      |-> pipeline,       \* the pipeline id the call is made for
     device_index  |-> p.device_index,
     channel_index |-> p.channel_index,
     ret           |-> ret,            \* the flag (MeasureStatus: the raw status)
     selected      |-> selected]

NoHistory == [on |-> FALSE, load_settings |-> <<>>, run_channel |-> <<>>, start |-> <<>>]

\* two observations are of the same arguments ("" is an argument not taken)
same_arguments(a, b) ==
    /\ a.pipeline = b.pipeline
    /\ a.settings_file = "" \/ b.settings_file = "" \/ a.settings_file = b.settings_file
    /\ a.output_path = "" \/ b.output_path = "" \/ a.output_path = b.output_path

\* the outcome of a load_settings, run_channel or start is kept with its
\* arguments; outcomes observed for other arguments are dropped
Log(fr, res) ==
    IF history.on /\ fr.op \in {"load_settings", "run_channel", "start"}
    THEN LET seen == [pipeline      |-> fr.pipeline,
                      settings_file |-> fr.settings_file,
                      output_path   |-> fr.output_path,
                      result        |-> res]
             keep(o) == IF o = fr.op THEN <<seen>>
                        ELSE SelectSeq(history[o], LAMBDA e : same_arguments(e, seen))
         IN  [on            |-> TRUE,
              load_settings |-> keep("load_settings"),
              run_channel   |-> keep("run_channel"),
              start         |-> keep("start")]
    ELSE history

\* the operation of session w ends with res
Finish(w, fr, res) ==
    /\ pc' = [pc EXCEPT ![w] = "done"]
    /\ result' = [result EXCEPT ![w] = res]
    /\ frame' = [frame EXCEPT ![w] = fr]
    /\ history' = Log(fr, res)

\* the operation of session w goes on at label l
Goto(w, fr, l) ==
    /\ pc' = [pc EXCEPT ![w] = l]
    /\ result' = [result EXCEPT ![w] = Running]
    /\ frame' = [frame EXCEPT ![w] = fr]
    /\ UNCHANGED history

\* one call of get_all_pipelines, as __init__ made it; ret is the number of
\* pipelines found
Sweep(found) ==
    [name          |-> "get_all_pipelines",
     pipeline      |-> "",
     device_index  |-> 0,
     channel_index |-> 0,
     ret           |-> Len(found.keys),
     selected      |-> selected]

\* get_all_pipelines has no raise statement: whatever it finds, it returns
sweep_raises(found) == FALSE

\* the calls of get_all_pipelines in __init__: a second one when the first
\* raised ValueError
sweeps ==
    IF sweep_raises(get_all_pipelines)
    THEN <<Sweep(get_all_pipelines), Sweep(get_all_pipelines)>>
    ELSE <<Sweep(get_all_pipelines)>>

\* __init__: try: self.pipelines = self.get_all_pipelines()
\* except ValueError: sleep(1); self.pipelines = self.get_all_pipelines()
Construct(w) ==
    /\ pc[w] = "new"
    /\ calls' = [calls EXCEPT ![w] = sweeps]
    /\ IF Len(sweeps) = 2 /\ sweep_raises(get_all_pipelines)
       THEN /\ pc' = [pc EXCEPT ![w] = "failed"]
            /\ UNCHANGED pipelines
       ELSE /\ pc' = [pc EXCEPT ![w] = "idle"]
            /\ pipelines' = [pipelines EXCEPT ![w] = get_all_pipelines]
    /\ UNCHANGED <<devices, serial_to_name, eclab, selected, frame,
                   result, history, request, listener, conn, client>>

\* start without its load_settings
first_callee_run(op) == IF op = "start" THEN "run_channel" ELSE op

\* start: self.load_settings(pipeline, input_file) comes first
first_callee(op) == IF op = "start" THEN "load_settings" ELSE op

\* a call of load_settings, run_channel, stop, get_experiment_info or start,
\* up to its first driver call
Invoke(w, op, pipeline, settings_file, output_path) ==
    LET callee == first_callee(op)
        fr == [NewFrame(op, pipeline, settings_file, output_path, <<>>)
                 EXCEPT !.callee = callee]
        res == entry(w, callee, pipeline, settings_file)
    IN  /\ pc[w] = "idle"
        /\ calls' = [calls EXCEPT ![w] = <<>>]
        /\ IF res = Running THEN Goto(w, fr, "select") ELSE Finish(w, fr, res)
        /\ UNCHANGED <<devices, serial_to_name, eclab, selected, pipelines, request, listener, conn, client>>

load_settings(w, pipeline, settings_file) ==
    Invoke(w, "load_settings", pipeline, settings_file, "")

run_channel(w, pipeline, output_path) ==
    Invoke(w, "run_channel", pipeline, "", output_path)

start(w, pipeline, input_file, output_file) ==
    Invoke(w, "start", pipeline, input_file, output_file)

stop(w, pipeline) ==
    Invoke(w, "stop", pipeline, "", "")

get_experiment_info(w, pipeline) ==
    Invoke(w, "get_experiment_info", pipeline, "", "")

\* "if not result" in place of "if result != 1"
failed_falsy(ret) == ret = 0

\* result != 1
failed(ret) == ret # 1

\* the caller has the result of the operation; the session is free again
Resume(w) ==
    /\ pc[w] = "done"
    /\ pc' = [pc EXCEPT ![w] = "idle"]
    /\ frame' = [frame EXCEPT ![w] = NoFrame]
    /\ calls' = [calls EXCEPT ![w] = <<>>]
    /\ result' = [result EXCEPT ![w] = NoResult]
    /\ UNCHANGED <<devices, serial_to_name, eclab, selected, pipelines, history, request, listener, conn, client>>

\* select_pipeline: self.eclab.SelectChannel(device_index, channel_index)
select_pipeline(w) ==
    LET fr == frame[w]
        p == get_pipeline(w, fr.pipeline)
        ret == eclab.SelectChannel
    IN  /\ pc[w] = "select"
        /\ calls' = [calls EXCEPT ![w] = Append(@, DriverCall("SelectChannel", fr.pipeline, p, ret))]
        /\ selected' = IF ret = 1 THEN <<p.device_index, p.channel_index>> ELSE selected
        /\ IF failed(ret) THEN Finish(w, fr, FailedSwitch) ELSE Goto(w, fr, "act")
        /\ UNCHANGED <<devices, serial_to_name, eclab, pipelines, request, listener, conn, client>>

\* self.eclab.LoadSettings(device_index, channel_index, str(settings_file));
\* in start, run_channel follows
LoadSettings(w) ==
    LET fr == frame[w]
        p == get_pipeline(w, fr.pipeline)
        ret == eclab.LoadSettings
        next == [fr EXCEPT !.callee = "run_channel"]
        res == entry(w, "run_channel", fr.pipeline, fr.settings_file)
    IN  /\ pc[w] = "act"
        /\ fr.callee = "load_settings"
        /\ calls' = [calls EXCEPT ![w] = Append(@, DriverCall("LoadSettings", fr.pipeline, p, ret))]
        /\ IF failed(ret) THEN Finish(w, fr, FailedLoad)
           ELSE IF fr.op # "start" THEN Finish(w, fr, Return(None))
           ELSE IF res = Running THEN Goto(w, next, "select")
           ELSE Finish(w, next, res)
        /\ UNCHANGED <<devices, serial_to_name, eclab, selected, pipelines, request, listener, conn, client>>

\* self.eclab.RunChannel(device_index, channel_index, str(output_path))
RunChannel(w) ==
    LET fr == frame[w]
        p == get_pipeline(w, fr.pipeline)
        ret == eclab.RunChannel
    IN  /\ pc[w] = "act"
        /\ fr.callee = "run_channel"
        /\ calls' = [calls EXCEPT ![w] = Append(@, DriverCall("RunChannel", fr.pipeline, p, ret))]
        /\ IF failed(ret) THEN Finish(w, fr, FailedRun) ELSE Finish(w, fr, Return(None))
        /\ UNCHANGED <<devices, serial_to_name, eclab, selected, pipelines, request, listener, conn, client>>

\* self.eclab.StopChannel(device_index, channel_index)
StopChannel(w) ==
    LET fr == frame[w]
        p == get_pipeline(w, fr.pipeline)
        ret == eclab.StopChannel
    IN  /\ pc[w] = "act"
        /\ fr.callee = "stop"
        /\ calls' = [calls EXCEPT ![w] = Append(@, DriverCall("StopChannel", fr.pipeline, p, ret))]
        /\ IF failed(ret) THEN Finish(w, fr, FailedStop) ELSE Finish(w, fr, Return(None))
        /\ UNCHANGED <<devices, serial_to_name, eclab, selected, pipelines, request, listener, conn, client>>

(***************************************************************************)
(* get_status and get_job_id.                                              *)
(***************************************************************************)
\* the keys of {pid: ... for pid in pipeline_ids}: first occurrences, in order
RECURSIVE dedup(_, _)
dedup(ids, acc) ==
    IF ids = <<>> THEN acc
    ELSE dedup(Tail(ids),
               IF \E n \in DOMAIN acc : acc[n] = Head(ids) THEN acc
               ELSE Append(acc, Head(ids)))

\* [pid for pid in pipeline_ids if pid in self.pipelines]
known_ids(w, ids) == SelectSeq(ids, LAMBDA pid : DictHas(pipelines[w], pid))

\* the ids passed not looked at: every pipeline is measured
status_ids_every(w, ids) == pipelines[w].keys

\* get_status: the pipelines it measures ("if not pipeline_ids": all of them)
status_ids(w, ids) ==
    IF ids = <<>> THEN pipelines[w].keys ELSE dedup(known_ids(w, ids), <<>>)

\* no job id
NoJob == <<None>>

\* the end timestamp not looked at
job_id_ignores_end(info) ==
    IF info.start # None
    THEN IF info.folder = NoFolder THEN AttributeError
         ELSE IF Len(split(info.folder)) < 2 THEN IndexError
         ELSE Return(split(info.folder)[Len(split(info.folder)) - 1])
    ELSE Return(NoJob)

\* folder.split("\\")[-2] if (start is not None and end is None) else None
job_id(info) ==
    IF info.start # None /\ info.end = None
    THEN IF info.folder = NoFolder THEN AttributeError
         ELSE IF Len(split(info.folder)) < 2 THEN IndexError
         ELSE Return(split(info.folder)[Len(split(info.folder)) - 1])
    ELSE Return(NoJob)

\* the for loop of get_job_id from position k, up to the next pipeline that
\* needs get_experiment_info
RECURSIVE job_loop(_)
job_loop(fr) ==
    IF fr.k > Len(fr.pipeline_ids) THEN fr
    ELSE IF is_active(fr.status.items[fr.pipeline_ids[fr.k]]) THEN fr
    ELSE job_loop([fr EXCEPT !.job_ids = DictSet(@, fr.pipeline_ids[fr.k], NoJob),
                             !.k = @ + 1])

\* get_job_id goes on after get_status or after one turn of its loop
Continue(w, fr) ==
    LET f == job_loop([fr EXCEPT !.callee = "get_job_id"])
    IN  IF f.k > Len(f.pipeline_ids) THEN Finish(w, f, Return(f.job_ids))
        ELSE Goto(w, [f EXCEPT !.callee = "get_experiment_info",
                               !.pipeline = f.pipeline_ids[f.k]], "select")

\* get_status goes on after a measurement
StatusDone(w, fr) ==
    IF fr.todo # <<>> THEN Goto(w, fr, "status")
    ELSE IF fr.op = "get_status" THEN Finish(w, fr, Return(fr.status))
    ELSE Continue(w, fr)

get_status(w, pipeline_ids) ==
    LET fr == [NewFrame("get_status", "", "", "", pipeline_ids)
                 EXCEPT !.todo = status_ids(w, pipeline_ids)]
    IN  /\ pc[w] = "idle"
        /\ calls' = [calls EXCEPT ![w] = <<>>]
        /\ StatusDone(w, fr)
        /\ UNCHANGED <<devices, serial_to_name, eclab, selected, pipelines, request, listener, conn, client>>

get_job_id(w, pipeline_ids) ==
    LET ids == IF pipeline_ids = <<>> THEN pipelines[w].keys
               ELSE known_ids(w, pipeline_ids)
        fr == [NewFrame("get_job_id", "", "", "", pipeline_ids)
                 EXCEPT !.pipeline_ids = ids,
                        !.callee = "get_status", !.todo = status_ids(w, ids)]
    IN  /\ pc[w] = "idle"
        /\ calls' = [calls EXCEPT ![w] = <<>>]
        /\ StatusDone(w, fr)
        /\ UNCHANGED <<devices, serial_to_name, eclab, selected, pipelines, request, listener, conn, client>>

\* bio.get_status(show_offline=True), bio.get_job_id(pipeline_ids=None,
\* show_offline=True): neither signature has the parameter, the body is not
\* entered
call_show_offline(w, op) ==
    /\ pc[w] = "idle"
    /\ calls' = [calls EXCEPT ![w] = <<>>]
    /\ Finish(w, [NewFrame(op, "", "", "", <<>>) EXCEPT !.show_offline = TRUE],
              UnexpectedKeyword)
    /\ UNCHANGED <<devices, serial_to_name, eclab, selected, pipelines, request, listener, conn, client>>

\* self.eclab.MeasureStatus(device_index, channel_index), decoded
MeasureStatus(w) ==
    LET fr == frame[w]
        pid == Head(fr.todo)
        p == get_pipeline(w, pid)
    IN  /\ pc[w] = "status"
        /\ \E raw \in RawStatus :
            /\ calls' = [calls EXCEPT ![w] = Append(@, DriverCall("MeasureStatus", pid, p, raw))]
            /\ StatusDone(w, [fr EXCEPT !.todo = Tail(@),
                                       !.status = DictSet(@, pid, human_readable_status(raw))])
        /\ UNCHANGED <<devices, serial_to_name, eclab, selected, pipelines, request, listener, conn, client>>

\* self.eclab.GetExperimentInfos(device_index, channel_index); the result flag
\* is not looked at
GetExperimentInfos(w) ==
    LET fr == frame[w]
        p == get_pipeline(w, fr.pipeline)
    IN  /\ pc[w] = "act"
        /\ fr.callee = "get_experiment_info"
        /\ \E info \in ExperimentInfos :
            /\ calls' = [calls EXCEPT ![w] =
                            Append(@, DriverCall("GetExperimentInfos", fr.pipeline, p,
                                                 info.result))]
            /\ IF fr.op = "get_experiment_info"
               THEN Finish(w, fr, Return(<<info.start, info.end, info.folder>>))
               ELSE LET got == [fr EXCEPT !.start = info.start, !.end = info.end,
                                          !.folder = info.folder]
                    IN  IF job_id(info).exc # "return" THEN Finish(w, got, job_id(info))
                        ELSE Continue(w, [got EXCEPT
                                            !.job_ids = DictSet(@, fr.pipeline,
                                                                job_id(info).value[1]),
                                            !.k = @ + 1])
        /\ UNCHANGED <<devices, serial_to_name, eclab, selected, pipelines, request, listener, conn, client>>

(***************************************************************************)
(* Specifications.                                                         *)
(***************************************************************************)
\* flags EC-lab returns for SelectChannel, LoadSettings, RunChannel, StopChannel
EclabFlags ==
    [SelectChannel : DriverRets, LoadSettings : DriverRets,
     RunChannel : DriverRets, StopChannel : DriverRets]

\* EC-lab as the tests fake it: one flag for SelectChannel, one for the commands
FakeFlags ==
    { e \in EclabFlags : e.LoadSettings = e.RunChannel /\ e.RunChannel = e.StopChannel }

AllSucceed ==
    [SelectChannel |-> 1, LoadSettings |-> 1, RunChannel |-> 1, StopChannel |-> 1]

\* enumerations of a session: ordinal 0 is the configured device 123, every
\* other ordinal is device 999 or a device that reports serial 0
SessionReports ==
    { d \in AllReports :
        /\ d[0].sn = 123
        /\ \A i \in 1..(MaxDevices - 1) : d[i].sn \in {0, 999}
        /\ \A i \in 0..(MaxDevices - 1) : d[i].success = 1 /\ Len(d[i].channel_sns) = 1 }

\* the sessions are not constructed yet
InitObjects ==
    /\ selected = <<>>
    /\ pipelines = [w \in Workers |-> EmptyDict]
    /\ pc = [w \in Workers |-> "new"]
    /\ frame = [w \in Workers |-> NoFrame]
    /\ calls = [w \in Workers |-> <<>>]
    /\ result = [w \in Workers |-> NoResult]
    /\ request = [w \in Workers |-> <<>>]
    /\ listener = "none"
    /\ conn = [w \in Workers |-> NoConn]
    /\ client = [w \in Workers |-> NoClient]

InitSessions ==
    /\ serial_to_name \in Configs
    /\ InitObjects

\* one session, used by one caller: load_settings, run_channel, start, stop
\* and get_experiment_info
Session == 1

Init ==
    /\ InitSessions
    /\ devices \in SessionReports
    /\ eclab \in FakeFlags
    /\ history = NoHistory

Next ==
    \/ Construct(Session)
    \/ \E p \in PipelineArgs, f \in SettingsArgs : load_settings(Session, p, f)
    \/ \E p \in PipelineArgs, o \in OutputArgs : run_channel(Session, p, o)
    \/ \E p \in PipelineArgs, f \in SettingsArgs, o \in OutputArgs : start(Session, p, f, o)
    \/ \E p \in PipelineArgs : stop(Session, p)
    \/ \E p \in PipelineArgs : get_experiment_info(Session, p)
    \/ select_pipeline(Session)
    \/ LoadSettings(Session)
    \/ RunChannel(Session)
    \/ StopChannel(Session)
    \/ GetExperimentInfos(Session)
    \/ Resume(Session)

Spec == Init /\ [][Next]_vars

\* get_status and get_job_id on one session; of EC-lab's flags only that of
\* SelectChannel matters to them
InitQuery ==
    /\ InitSessions
    /\ devices \in SessionReports
    /\ eclab \in { e \in FakeFlags : e.LoadSettings = 1 }
    /\ history = NoHistory

NextQuery ==
    \/ Construct(Session)
    \/ \E ids \in IdArgs : get_status(Session, ids)
    \/ \E ids \in IdArgs : get_job_id(Session, ids)
    \/ \E op \in {"get_status", "get_job_id"} : call_show_offline(Session, op)
    \/ MeasureStatus(Session)
    \/ select_pipeline(Session)
    \/ GetExperimentInfos(Session)
    \/ Resume(Session)

SpecQuery == InitQuery /\ [][NextQuery]_vars

\* the registry built from any enumeration
InitRegistry ==
    /\ serial_to_name \in RegistryConfigs
    /\ InitObjects
    /\ devices \in AllReports
    /\ eclab = AllSucceed
    /\ history = NoHistory

NextRegistry == Construct(Session)

SpecRegistry == InitRegistry /\ [][NextRegistry]_vars

\* load_settings, run_channel and start on one session, with their outcomes
\* kept; EC-lab answers each command with its own flag
InitStart ==
    /\ InitSessions
    /\ devices \in SessionReports
    /\ eclab \in { e \in EclabFlags : e.StopChannel = 1 }
    /\ history = [NoHistory EXCEPT !.on = TRUE]

NextStart ==
    \/ Construct(Session)
    \/ \E p \in PipelineArgs, f \in SettingsArgs : load_settings(Session, p, f)
    \/ \E p \in PipelineArgs, o \in OutputArgs : run_channel(Session, p, o)
    \/ \E p \in PipelineArgs, f \in SettingsArgs, o \in OutputArgs : start(Session, p, f, o)
    \/ select_pipeline(Session)
    \/ LoadSettings(Session)
    \/ RunChannel(Session)
    \/ Resume(Session)

SpecStart == InitStart /\ [][NextStart]_vars

(***************************************************************************)
(* The relay daemon: every accepted connection gets a worker thread, which *)
(* runs the request as a subprocess; the subprocess is the CLI, which      *)
(* opens its own session on the one EC-lab instance.                       *)
(***************************************************************************)
\* requests a client sends, as the tokens send_command joins with spaces
Requests ==
    { <<"biologic", "load-settings", "MPG2-1-1", "settings.mps">>,
      <<"biologic", "stop", "MPG2-1-1">>,
      <<"biologic", "stop", "999-1">>,
      <<"rm", "-rf">> }

\* every request taken for valid
valid_command_any(command) == TRUE

\* command.startswith("biologic")
valid_command(command) == command[1] = "biologic"

\* b"Invalid command\n"
InvalidCommand == [form |-> "invalid", text |-> "Invalid command\n"]

\* result.stdout.encode() + b"\n" + result.stderr.encode()
Output(out) == [form |-> "output", text |-> out.stdout \o "\n" \o out.stderr]

\* f"Error: {e}".encode()
Error(e) == [form |-> "error", text |-> "Error: " \o e]

\* exceptions of the socket and of subprocess.run
ConnectionResetError == "Connection reset by peer"
BrokenPipeError == "Broken pipe"
OSError == "Cannot allocate memory"

\* what the subprocess of a command prints: nothing on success, the
\* traceback of the exception otherwise
cli_output(res) ==
    [stdout |-> "",
     stderr |-> IF res.exc = "return" THEN "" ELSE res.exc \o ": " \o res.value[1]]

\* the accept loop waits for the worker it started before it accepts again
accepts_after_join(w) ==
    /\ listener = "listening"
    /\ \A v \in Workers : pc[v] = "listening"

\* while True: s.accept(); threading.Thread(...).start(): start does not
\* wait for the thread, so the loop is back at accept at once; a connection
\* is accepted whenever there is a worker for it
accepts(w) ==
    /\ listener = "listening"
    /\ pc[w] = "listening"

\* start_daemon: conn, addr = s.accept(); threading.Thread(...).start()
start_daemon(w, command) ==
    /\ accepts(w)
    /\ request' = [request EXCEPT ![w] = command]
    /\ conn' = [conn EXCEPT ![w] = [NoConn EXCEPT !.peer = "open",
                                                  !.crashed = conn[w].crashed]]
    /\ pc' = [pc EXCEPT ![w] = "accepted"]
    /\ UNCHANGED <<devices, serial_to_name, eclab, selected, pipelines, frame,
                   calls, result, history, listener, client>>

\* the client goes away while its request is served
client_disconnect(w) ==
    /\ pc[w] # "listening"
    /\ conn[w].peer = "open"
    /\ conn' = [conn EXCEPT ![w].peer = "gone"]
    /\ UNCHANGED <<devices, serial_to_name, eclab, selected, pipelines, pc, frame,
                   calls, result, history, request, listener, client>>

\* the chunks a written sequence of data arrives in
chunks(sent) == [n \in DOMAIN sent |-> sent[n].text]

\* the client's end of a connection the daemon closes: what was written
\* arrives, then the end of the stream
closed_by_peer(c, sent) ==
    IF c.pc \in {"connected", "reading"}
    THEN [c EXCEPT !.received = chunks(sent), !.eof = TRUE]
    ELSE c

\* the exception ends the thread inside the accept loop
thread_end_inline(l, exception) == IF exception THEN "exited" ELSE l

\* threading.Thread(target=receive_command, ...): the target returns or an
\* exception leaves it; either way only the thread ends
thread_end(l, exception) == l

\* finally: conn.close(); then the thread ends, with the exception that
\* propagates if there is one
Close(w) ==
    /\ pc[w] = "finally"
    /\ pc' = [pc EXCEPT ![w] = "listening"]
    /\ conn' = [conn EXCEPT ![w] = [NoConn EXCEPT !.crashed = conn[w].raised # ""]]
    /\ listener' = thread_end(listener, conn[w].raised # "")
    /\ request' = [request EXCEPT ![w] = <<>>]
    /\ pipelines' = [pipelines EXCEPT ![w] = EmptyDict]
    /\ frame' = [frame EXCEPT ![w] = NoFrame]
    /\ calls' = [calls EXCEPT ![w] = <<>>]
    /\ result' = [result EXCEPT ![w] = NoResult]
    /\ client' = [client EXCEPT ![w] = closed_by_peer(client[w], conn[w].sent)]
    /\ UNCHANGED <<devices, serial_to_name, eclab, selected, history>>

\* whether a call on the socket raises: it may when the client is gone
Raises(w) == IF conn[w].peer = "gone" THEN {FALSE, TRUE} ELSE {FALSE}

\* conn.sendall(data) in the try block; then the worker is at the finally
\* clause. It writes the data or raises
sendall(w, data) ==
    /\ \E raises \in Raises(w) :
          IF raises
          THEN /\ conn' = [conn EXCEPT ![w].raised = BrokenPipeError]
               /\ pc' = [pc EXCEPT ![w] = "except"]
          ELSE /\ conn' = [conn EXCEPT ![w].sent = Append(@, data)]
               /\ pc' = [pc EXCEPT ![w] = "finally"]
    /\ UNCHANGED <<devices, serial_to_name, eclab, selected, pipelines, frame,
                   calls, result, history, request, listener, client>>

\* conn.recv returns only when the stream has ended
recv_ready_at_eof(w) == client[w].pc \notin {"connected", "reading"}

\* conn.recv(4096) returns as soon as data has arrived: not while the client
\* has connected and not sent yet
recv_ready(w) == client[w].pc # "connected"

\* receive_command: the request is read (conn.recv raises when the
\* connection was reset) and checked; for a valid one subprocess.run is
\* called
receive_command(w) ==
    /\ pc[w] = "accepted"
    /\ recv_ready(w)
    /\ \E raises \in Raises(w) :
          IF raises
          THEN /\ conn' = [conn EXCEPT ![w].raised = ConnectionResetError]
               /\ pc' = [pc EXCEPT ![w] = "except"]
          ELSE IF valid_command(request[w])
          THEN /\ conn' = [conn EXCEPT ![w].ran = TRUE]
               /\ pc' = [pc EXCEPT ![w] = "new"]
          ELSE /\ pc' = [pc EXCEPT ![w] = "invalid"]
               /\ UNCHANGED conn
    /\ UNCHANGED <<devices, serial_to_name, eclab, selected, pipelines, frame,
                   calls, result, history, request, listener, client>>

\* receive_command: conn.sendall(b"Invalid command\n"); return
send_invalid(w) ==
    /\ pc[w] = "invalid"
    /\ sendall(w, InvalidCommand)

\* cli/main.py load_settings: bio.load_settings(pipeline, settings_file)
cli_load_settings(w) ==
    /\ request[w] # <<>>
    /\ request[w][2] = "load-settings"
    /\ load_settings(w, request[w][3], request[w][4])

\* cli/main.py stop: bio.stop(pipeline)
cli_stop(w) ==
    /\ request[w] # <<>>
    /\ request[w][2] = "stop"
    /\ stop(w, request[w][3])

\* how a subprocess may end when only its end matters
SubprocessResults == {Return(None), NotKnown}

\* subprocess.run(command, shell=True, capture_output=True, text=True): the
\* command ends, or subprocess.run raises
subprocess_run(w) ==
    /\ pc[w] = "new"
    /\ request[w] # <<>>
    /\ \/ /\ \E res \in SubprocessResults : result' = [result EXCEPT ![w] = res]
          /\ pc' = [pc EXCEPT ![w] = "done"]
          /\ UNCHANGED conn
       \/ /\ conn' = [conn EXCEPT ![w].raised = OSError]
          /\ pc' = [pc EXCEPT ![w] = "except"]
          /\ UNCHANGED result
    /\ UNCHANGED <<devices, serial_to_name, eclab, selected, pipelines, frame,
                   calls, history, request, listener, client>>

\* receive_command: the subprocess has ended; its output is sent back
send_result(w) ==
    /\ pc[w] = "done"
    /\ request[w] # <<>>
    /\ sendall(w, Output(cli_output(result[w])))

\* except Exception as e: conn.sendall(f"Error: {e}".encode()); when this
\* sendall raises too, its exception leaves receive_command
handle_exception(w) ==
    /\ pc[w] = "except"
    /\ pc' = [pc EXCEPT ![w] = "finally"]
    /\ \E raises \in Raises(w) :
          IF raises
          THEN conn' = [conn EXCEPT ![w].raised = BrokenPipeError]
          ELSE conn' = [conn EXCEPT ![w].sent = Append(@, Error(conn[w].raised)),
                                    ![w].raised = ""]
    /\ UNCHANGED <<devices, serial_to_name, eclab, selected, pipelines, frame,
                   calls, result, history, request, listener, client>>

\* the devices 123 and 999 with one channel each
DaemonReports == { d \in SessionReports : d[1].sn = 999 }

\* no connection yet
InitWorkers ==
    /\ serial_to_name \in Configs
    /\ selected = <<>>
    /\ pipelines = [w \in Workers |-> EmptyDict]
    /\ pc = [w \in Workers |-> "listening"]
    /\ frame = [w \in Workers |-> NoFrame]
    /\ calls = [w \in Workers |-> <<>>]
    /\ result = [w \in Workers |-> NoResult]
    /\ request = [w \in Workers |-> <<>>]
    /\ conn = [w \in Workers |-> NoConn]
    /\ client = [w \in Workers |-> NoClient]
    /\ devices \in DaemonReports
    /\ history = NoHistory

\* the daemon has bound its port and listens
InitListening ==
    /\ InitWorkers
    /\ listener = "listening"

\* the daemon with the commands run against EC-lab; the clients stay
\* connected
InitDaemon ==
    /\ InitListening
    /\ eclab \in FakeFlags

NextDaemon ==
    \E w \in Workers :
        \/ \E command \in Requests : start_daemon(w, command)
        \/ receive_command(w)
        \/ send_invalid(w)
        \/ Construct(w)
        \/ cli_load_settings(w)
        \/ cli_stop(w)
        \/ select_pipeline(w)
        \/ LoadSettings(w)
        \/ StopChannel(w)
        \/ send_result(w)
        \/ Close(w)

SpecDaemon == InitDaemon /\ [][NextDaemon]_vars

\* requests for the relay alone: one the daemon takes for valid, one it rejects
RelayRequests == { <<"biologic", "stop", "MPG2-1-1">>, <<"rm", "-rf">> }

\* the relay alone: clients that may disconnect at any time, and
\* subprocesses of which only the end is looked at
InitRelay ==
    /\ InitListening
    /\ eclab = AllSucceed

NextRelay ==
    \E w \in Workers :
        \/ \E command \in RelayRequests : start_daemon(w, command)
        \/ client_disconnect(w)
        \/ receive_command(w)
        \/ send_invalid(w)
        \/ subprocess_run(w)
        \/ send_result(w)
        \/ handle_exception(w)
        \/ Close(w)

SpecRelay == InitRelay /\ [][NextRelay]_vars

\* the diagnostic of send_command when the connection is refused
Remediation ==
    "Biologic daemon not running - run 'biologic daemon' in a GUI session on the PC with EC-lab and OLE-COM."

\* the connection is refused and send_command returns an empty text
connection_refused_returns(c) == [c EXCEPT !.pc = "returned", !.returned = <<"">>]

\* except ConnectionRefusedError: logger.exception(...); sys.exit(1)
connection_refused(c) == [c EXCEPT !.pc = "exited", !.status = 1, !.log = Remediation]

\* send_command: socket.create_connection((HOST, PORT), timeout=10)
send_command(w, command) ==
    /\ client[w].pc = "none"
    /\ client' = [client EXCEPT ![w] =
                    IF listener = "listening"
                    THEN [NoClient EXCEPT !.pc = "connected", !.message = command]
                    ELSE connection_refused([NoClient EXCEPT !.message = command])]
    /\ UNCHANGED <<devices, serial_to_name, eclab, selected, pipelines, pc, frame,
                   calls, result, history, request, listener, conn>>

\* send_command: sock.sendall(" ".join(command).encode()); the write side
\* stays open
client_sendall(w) ==
    /\ client[w].pc = "connected"
    /\ client' = [client EXCEPT ![w].pc = "reading"]
    /\ UNCHANGED <<devices, serial_to_name, eclab, selected, pipelines, pc, frame,
                   calls, result, history, request, listener, conn>>

\* b"".join(chunks)
RECURSIVE join(_)
join(received) ==
    IF received = <<>> THEN "" ELSE Head(received) \o join(Tail(received))

\* recv_all: sock.recv returns b"" once the daemon has closed;
\* send_command returns response.decode()
recv_all(w) ==
    /\ client[w].pc = "reading"
    /\ client[w].eof
    /\ client' = [client EXCEPT ![w].pc = "returned",
                                ![w].returned = <<join(client[w].received)>>]
    /\ UNCHANGED <<devices, serial_to_name, eclab, selected, pipelines, pc, frame,
                   calls, result, history, request, listener, conn>>

\* what the first conn.recv(4096) may return of a message: the stream
\* delivers the bytes in order, cut anywhere
first_reads(message) == { SubSeq(message, 1, n) : n \in 1..Len(message) }

\* the daemon accepts the connection of the client
accept_client(w) ==
    /\ client[w].pc \in {"connected", "reading"}
    /\ ~client[w].eof
    /\ \E command \in first_reads(client[w].message) : start_daemon(w, command)

\* the one connection of an exchange
Connection == 1

\* one client and the daemon, which may be running or not; the client stays
\* connected until it has the response
InitExchange ==
    /\ InitWorkers
    /\ listener \in {"listening", "none"}
    /\ eclab = AllSucceed

WorkerStep ==
    \/ accept_client(Connection)
    \/ receive_command(Connection)
    \/ send_invalid(Connection)
    \/ subprocess_run(Connection)
    \/ send_result(Connection)
    \/ handle_exception(Connection)
    \/ Close(Connection)

ClientStep ==
    \/ \E command \in Requests : send_command(Connection, command)
    \/ client_sendall(Connection)
    \/ recv_all(Connection)

NextExchange == WorkerStep \/ ClientStep

SpecExchange == InitExchange /\ [][NextExchange]_vars

\* every thread and every process gets to run, and subprocess.run ends
SpecExchangeFair ==
    SpecExchange /\ WF_vars(WorkerStep) /\ WF_vars(ClientStep)

(***************************************************************************)
(* Properties.                                                             *)
(***************************************************************************)
\* the driver calls that act on the selected channel
ActCalls == {"LoadSettings", "RunChannel", "StopChannel", "GetExperimentInfos"}

\* C1: with several daemon workers executing commands at the same time, no
\* load/run/stop/info call is issued while the channel EC-lab has selected
\* differs from the channel the command targets.
C1_SelectActSerialized ==
    \A w \in Workers : \A k \in DOMAIN calls[w] :
        calls[w][k].name \in ActCalls =>
            calls[w][k].selected = <<calls[w][k].device_index, calls[w][k].channel_index>>

C3_OfflineDevicesRegistered ==
    pc[Session] = "idle" =>
        \A i \in 0..(MaxDevices - 1) :
            (devices[i].success = 1 /\ devices[i].sn = 0) =>
                LET reg == pipelines[Session].items
                    synthetic == { id \in DOMAIN reg : reg[id].device_index = i }
                IN  /\ Cardinality(synthetic) = Len(devices[i].channel_sns)
                    /\ \A j \in 1..Len(devices[i].channel_sns) :
                          \E id \in synthetic :
                              /\ reg[id].channel_index = j - 1
                              /\ reg[id].device_serial_number = 0
                              /\ reg[id].channel_serial_number = 0

\* the error of run_channel on an offline pipeline, as the tests expect it
DeviceOffline == Raise("ValueError", "Device is offline")

\* C4: run_channel on the pipeline of a device that reported serial 0 fails
\* with "Device is offline", and no driver call is made.
C4_RunOfflineFails ==
    \A i \in 1..(MaxDevices - 1) :
        ( /\ frame[Session].op = "run_channel"
          /\ frame[Session].pipeline = OfflineId(i, 1)
          /\ devices[i].success = 1 /\ devices[i].sn = 0
          /\ Len(devices[i].channel_sns) >= 1 ) =>
            /\ pc[Session] = "done"
            /\ result[Session] = DeviceOffline
            /\ calls[Session] = <<>>

\* the error of run_channel on a directory, as the tests expect it
InvalidArgument == Raise("ValueError", "Must provide a full file path, not directory.")

\* C5: run_channel with an output path that is a directory fails with
\* "Must provide a full file path, not directory.", and no driver call is
\* made (stated for a registered pipeline, where no other failure comes
\* first).
C5_RunDirectoryFails ==
    ( /\ frame[Session].op = "run_channel"
      /\ frame[Session].output_path \in Directories
      /\ DictHas(pipelines[Session], frame[Session].pipeline) ) =>
        /\ pc[Session] = "done"
        /\ result[Session] = InvalidArgument
        /\ calls[Session] = <<>>

\* C6: load_settings with a settings path that does not exist fails with
\* FileNotFoundError whatever the pipeline id is, and no driver call is made.
C6_MissingSettingsFileNotFound ==
    ( /\ frame[Session].op = "load_settings"
      /\ frame[Session].settings_file \notin ExistingPaths ) =>
        /\ pc[Session] = "done"
        /\ result[Session].exc = "FileNotFoundError"
        /\ calls[Session] = <<>>

\* load_settings of a missing file on an unknown pipeline has ended
C6_Witness ==
    /\ pc[Session] = "done"
    /\ frame[Session].op = "load_settings"
    /\ frame[Session].settings_file = "missing.mps"
    /\ frame[Session].pipeline = "doesntexist"

\* the operations that take one pipeline id
SingleOps == {"load_settings", "run_channel", "start", "stop", "get_experiment_info"}

\* C7 as claimed: an operation on an id that is not in the registry fails with
\* "not known as a pipeline" whatever its other arguments are, and makes no
\* driver call.
C7_UnknownPipelineAlways ==
    ( /\ frame[Session].op \in SingleOps
      /\ frame[Session].pipeline \notin DOMAIN pipelines[Session].items ) =>
        /\ pc[Session] = "done"
        /\ result[Session] = NotKnown
        /\ calls[Session] = <<>>

\* C7 as amended: an operation on an id that is not in the registry makes no
\* driver call and fails with "not known as a pipeline", except that
\* load_settings and start look at the settings path first and fail with
\* FileNotFoundError when it does not exist.
C7_UnknownPipelineAfterFileCheck ==
    ( /\ frame[Session].op \in SingleOps
      /\ frame[Session].pipeline \notin DOMAIN pipelines[Session].items ) =>
        /\ pc[Session] = "done"
        /\ calls[Session] = <<>>
        /\ IF /\ frame[Session].op \in {"load_settings", "start"}
              /\ frame[Session].settings_file \notin ExistingPaths
           THEN result[Session].exc = "FileNotFoundError"
           ELSE result[Session] = NotKnown

\* a stop on an unknown pipeline has ended
C7_Witness ==
    /\ pc[Session] = "done"
    /\ frame[Session].op = "stop"
    /\ frame[Session].pipeline = "doesntexist"

\* C8: start succeeds iff load_settings and run_channel, called on their own
\* with the same arguments, both succeed; when load_settings fails, start
\* fails with the same error and makes no driver call for the run step (no
\* second SelectChannel, no RunChannel).
C8_StartIffLoadAndRun ==
    LET h == history
        c == calls[Session]
        fr == frame[Session]
    IN  /\ (h.load_settings # <<>> /\ h.run_channel # <<>> /\ h.start # <<>>) =>
              ( h.start[1].result.exc = "return" <=>
                  ( /\ h.load_settings[1].result.exc = "return"
                    /\ h.run_channel[1].result.exc = "return" ) )
        /\ (h.load_settings # <<>> /\ h.start # <<>>) =>
              ( h.load_settings[1].result.exc # "return" =>
                  h.start[1].result = h.load_settings[1].result )
        /\ ( /\ fr.op = "start"
             /\ h.load_settings # <<>>
             /\ h.load_settings[1].pipeline = fr.pipeline
             /\ h.load_settings[1].settings_file = fr.settings_file
             /\ h.load_settings[1].result.exc # "return" ) =>
              \A k \in DOMAIN c :
                  /\ c[k].name # "RunChannel"
                  /\ c[k].name = "SelectChannel" => k = 1

\* load_settings, run_channel and start have been called with the same
\* arguments, and start succeeded
C8_Witness ==
    /\ history.load_settings # <<>>
    /\ history.run_channel # <<>>
    /\ history.start # <<>>
    /\ history.start[1].result.exc = "return"

\* the statuses for which get_job_id asks for the experiment info
ActiveSet == {"Run", "Pause", "Sync", "Pause_rec"}

\* the status of the pipeline was measured as active by one of the calls
\* before position k
MeasuredActive(c, k, pipeline) ==
    /\ \E m \in 1..(k - 1) :
          c[m].name = "MeasureStatus" /\ c[m].pipeline = pipeline
    /\ \A m \in 1..(k - 1) :
          (c[m].name = "MeasureStatus" /\ c[m].pipeline = pipeline) =>
              human_readable_status(c[m].ret) \in ActiveSet

\* C9: in get_job_id, every SelectChannel and GetExperimentInfos call is made
\* for a pipeline whose status was measured before the call and decoded to
\* Run, Pause, Sync or Pause_rec.
C9_InfoOnlyForActive ==
    LET c == calls[Session] IN
    frame[Session].op = "get_job_id" =>
        \A k \in DOMAIN c :
            c[k].name \in {"SelectChannel", "GetExperimentInfos"} =>
                MeasuredActive(c, k, c[k].pipeline)

\* get_job_id has returned for two pipelines, one active and one not
C9_Witness ==
    LET c == calls[Session] IN
    /\ pc[Session] = "done"
    /\ frame[Session].op = "get_job_id"
    /\ result[Session].exc = "return"
    /\ \E k \in DOMAIN c : c[k].name = "GetExperimentInfos"
    /\ \E k \in DOMAIN c :
          c[k].name = "MeasureStatus" /\ human_readable_status(c[k].ret) \notin ActiveSet

\* the pipelines get_job_id resolves its argument to
Resolved(ids) ==
    IF ids = <<>> THEN DOMAIN pipelines[Session].items
    ELSE { ids[n] : n \in DOMAIN ids } \cap DOMAIN pipelines[Session].items

\* seg is the second-to-last of the segments the separators cut the folder into
SecondToLast(folder, seg) ==
    \E i \in 0..Len(folder), j \in 1..Len(folder) :
        /\ i < j
        /\ folder[j] = Sep
        /\ \A n \in (j + 1)..Len(folder) : folder[n] # Sep
        /\ i = 0 \/ folder[i] = Sep
        /\ \A n \in (i + 1)..(j - 1) : folder[n] # Sep
        /\ seg = SubSeq(folder, i + 1, j - 1)

\* what get_job_id holds while it runs and what it returns: an entry per
\* resolved pipeline; None for a pipeline not measured as active; for the
\* pipeline whose experiment info was just fetched, the second-to-last
\* segment of the folder when there is a start and no end, None otherwise
C10_Entries ==
    LET fr == frame[Session]
        c == calls[Session]
        jobs == fr.job_ids.items
    IN  (fr.op = "get_job_id" /\ result[Session].exc \in {"running", "return"}) =>
            /\ pc[Session] = "done" =>
                  /\ result[Session].value[1] = fr.job_ids
                  /\ DOMAIN jobs = Resolved(fr.arg_ids)
            /\ \A pid \in DOMAIN jobs :
                  ~MeasuredActive(c, Len(c) + 1, pid) => jobs[pid] = NoJob
            /\ (c # <<>> /\ c[Len(c)].name = "GetExperimentInfos") =>
                  /\ c[Len(c)].pipeline \in DOMAIN jobs
                  /\ IF fr.start # None /\ fr.end = None
                     THEN SecondToLast(fr.folder, jobs[c[Len(c)].pipeline])
                     ELSE jobs[c[Len(c)].pipeline] = NoJob

\* an entry stays as it is unless the experiment info of its pipeline is
\* fetched again
C10_EntryKept ==
    (frame[Session].op = "get_job_id" /\ frame'[Session].op = "get_job_id") =>
        \A pid \in DOMAIN frame[Session].job_ids.items :
            /\ pid \in DOMAIN frame'[Session].job_ids.items
            /\ \/ frame'[Session].job_ids.items[pid] = frame[Session].job_ids.items[pid]
               \/ /\ Len(calls'[Session]) = Len(calls[Session]) + 1
                  /\ calls'[Session][Len(calls'[Session])].name = "GetExperimentInfos"
                  /\ calls'[Session][Len(calls'[Session])].pipeline = pid

\* C10: get_job_id returns one entry per resolved pipeline; the entry is the
\* second-to-last segment of the experiment folder iff the status of the
\* pipeline is Run, Pause, Sync or Pause_rec and the experiment info last
\* fetched for it has a start and no end timestamp, and None otherwise.
C10_JobIdEntries == []C10_Entries /\ [][C10_EntryKept]_vars

\* get_job_id has returned a job id for one pipeline and None for another
C10_Witness ==
    LET jobs == frame[Session].job_ids.items IN
    /\ pc[Session] = "done"
    /\ frame[Session].op = "get_job_id"
    /\ result[Session].exc = "return"
    /\ \E pid \in DOMAIN jobs : jobs[pid] # NoJob /\ jobs[pid] # <<>>
    /\ \E pid \in DOMAIN jobs : jobs[pid] = NoJob

\* the ids a caller passed, as a set
Asked(ids) == { ids[n] : n \in DOMAIN ids }

\* C11: get_status called with ids never raises; it calls MeasureStatus only
\* for passed ids that are in the registry, and the keys of what it returns
\* are exactly the passed ids that are in the registry, so fewer than were
\* passed when one of them is unknown.
C11_StatusKnownIdsOnly ==
    LET fr == frame[Session]
        c == calls[Session]
        known == Asked(fr.arg_ids) \cap DOMAIN pipelines[Session].items
    IN  (fr.op = "get_status" /\ fr.arg_ids # <<>>) =>
            /\ result[Session].exc \in {"running", "return"}
            /\ \A k \in DOMAIN c :
                  c[k].name = "MeasureStatus" /\ c[k].pipeline \in known
            /\ pc[Session] = "done" =>
                  /\ result[Session].value[1] = fr.status
                  /\ DOMAIN fr.status.items = known
                  /\ { c[k].pipeline : k \in DOMAIN c } = known
                  /\ known # Asked(fr.arg_ids) =>
                        Cardinality(known) < Cardinality(Asked(fr.arg_ids))

\* get_status has returned for a known and an unknown id
C11_Witness ==
    LET fr == frame[Session] IN
    /\ pc[Session] = "done"
    /\ fr.op = "get_status"
    /\ result[Session].exc = "return"
    /\ "doesntexist" \in Asked(fr.arg_ids)
    /\ DOMAIN fr.status.items # {}
    /\ calls[Session] # <<>>

\* the channels reported by the devices that are online, or by those that
\* are offline (serial 0)
Channels(online) ==
    { c \in (0..(MaxDevices - 1)) \X (1..MaxChannels) :
        /\ devices[c[1]].success = 1
        /\ c[2] <= Len(devices[c[1]].channel_sns)
        /\ (devices[c[1]].sn # 0) = online }

\* C12: get_status and get_job_id called with no ids return one entry per
\* channel of the online devices, and with show_offline=True one entry per
\* channel of the online and of the offline devices.
C12_NoIdsEveryPipeline ==
    LET fr == frame[Session]
        res == result[Session]
    IN  ( /\ pc[Session] = "done"
          /\ fr.op \in {"get_status", "get_job_id"}
          /\ fr.arg_ids = <<>> ) =>
            IF fr.show_offline
            THEN /\ res.exc = "return"
                 /\ Cardinality(DOMAIN res.value[1].items) =
                        Cardinality(Channels(TRUE)) + Cardinality(Channels(FALSE))
            ELSE res.exc = "return" =>
                    Cardinality(DOMAIN res.value[1].items) = Cardinality(Channels(TRUE))

\* the driver calls that carry out load_settings, run_channel and stop
CommandCalls == {"LoadSettings", "RunChannel", "StopChannel"}

\* the exception classes of UnknownPipeline, InvalidArgument and DeviceOffline
CallerErrorKinds == {NotKnown.exc, InvalidArgument.exc, DeviceOffline.exc}

\* C13: load_settings, run_channel and stop return iff LoadSettings,
\* RunChannel or StopChannel returns 1; on any other value they raise an
\* exception whose class is not that of the unknown-pipeline, the
\* invalid-argument or the device-offline error.
C13_CommandFailedKind ==
    LET fr == frame[Session]
        c == calls[Session]
    IN  ( /\ pc[Session] = "done"
          /\ fr.op \in {"load_settings", "run_channel", "stop"}
          /\ c # <<>>
          /\ c[Len(c)].name \in CommandCalls ) =>
            IF c[Len(c)].ret = 1
            THEN result[Session].exc = "return"
            ELSE /\ result[Session].exc \notin {"none", "running", "return"}
                 /\ result[Session].exc \notin CallerErrorKinds

\* C14: get_experiment_info calls SelectChannel and then GetExperimentInfos
\* for the pipeline; it returns (start, end, folder, files) when
\* GetExperimentInfos reports the flag 1 and raises when it reports another
\* flag.
C14_InfoFailureRaises ==
    LET fr == frame[Session]
        c == calls[Session]
    IN  ( /\ pc[Session] = "done"
          /\ fr.op = "get_experiment_info"
          /\ c # <<>>
          /\ c[Len(c)].name = "GetExperimentInfos" ) =>
            /\ Len(c) = 2
            /\ c[1].name = "SelectChannel"
            /\ c[1].pipeline = fr.pipeline /\ c[2].pipeline = fr.pipeline
            /\ IF c[2].ret = 1
               THEN result[Session].exc = "return"
               ELSE result[Session].exc \notin {"none", "running", "return"}

\* C15: load_settings with an existing settings file on the pipeline of a
\* device that reported serial 0 never fails with "Device is offline": it
\* calls SelectChannel, then LoadSettings when the channel was selected, and
\* returns when LoadSettings returns 1.
C15_LoadOfflineAllowed ==
    LET fr == frame[Session]
        c == calls[Session]
    IN  \A i \in 1..(MaxDevices - 1) :
        ( /\ pc[Session] = "done"
          /\ fr.op = "load_settings"
          /\ fr.pipeline = OfflineId(i, 1)
          /\ exists(fr.settings_file)
          /\ devices[i].success = 1 /\ devices[i].sn = 0
          /\ Len(devices[i].channel_sns) >= 1 ) =>
            /\ result[Session] # DeviceOffline
            /\ c # <<>>
            /\ c[1].name = "SelectChannel"
            /\ c[1].device_index = i /\ c[1].channel_index = 0
            /\ c[1].ret = 1 => (Len(c) = 2 /\ c[2].name = "LoadSettings")
            /\ (Len(c) = 2 /\ c[2].ret = 1) => result[Session].exc = "return"

\* C16: after the registry is built, its entries are in one-to-one
\* correspondence with the channels reported by the devices that report
\* success and a serial number other than 0: every such channel has an
\* entry, every entry is of such a channel, no two entries have the same
\* device and channel index, and a device without success has no entry.
C16_OneEntryPerChannel ==
    LET reg == pipelines[Session].items
        at(id) == <<reg[id].device_index, reg[id].channel_index + 1>>
    IN  pc[Session] = "idle" =>
            /\ \A c \in Channels(TRUE) : \E id \in DOMAIN reg : at(id) = c
            /\ \A id \in DOMAIN reg : at(id) \in Channels(TRUE)
            /\ \A id1, id2 \in DOMAIN reg : at(id1) = at(id2) => id1 = id2
            /\ \A i \in 0..(MaxDevices - 1) :
                  devices[i].success = 0 =>
                      \A id \in DOMAIN reg : reg[id].device_index # i

\* the device name of a serial number: the configured name, or the serial
\* number itself
NameOf(sn) ==
    IF sn \in DOMAIN serial_to_name THEN serial_to_name[sn] ELSE ToString(sn)

\* C17: for each device that reports success, a serial number other than 0
\* and k channels, the registry entries of the device are numbered 1..k:
\* entry n has the id "<device name>-<n>", channel index n - 1 and the n-th
\* reported channel serial number, where the device name is the configured
\* name of the serial number or the serial number itself.
C17_NumberedPerDevice ==
    LET reg == pipelines[Session].items IN
    pc[Session] = "idle" =>
        \A i \in 0..(MaxDevices - 1) :
            (devices[i].success = 1 /\ devices[i].sn # 0) =>
                LET k == Len(devices[i].channel_sns)
                    own == { id \in DOMAIN reg : reg[id].device_index = i }
                IN  /\ own = { NameOf(devices[i].sn) \o "-" \o ToString(n) : n \in 1..k }
                    /\ \A n \in 1..k :
                          LET id == NameOf(devices[i].sn) \o "-" \o ToString(n) IN
                          id \in DOMAIN reg =>
                              /\ reg[id].channel_index = n - 1
                              /\ reg[id].channel_serial_number = devices[i].channel_sns[n]
                              /\ reg[id].device_serial_number = devices[i].sn

\* the request of worker w does not begin with the name of the program
BadPrefix(w) == pc[w] # "listening" /\ request[w][1] # "biologic"

\* C18: for a request that does not begin with "biologic", subprocess.run is
\* never called and no output of a command is written; when the connection
\* is about to be closed and the client is still there, what was written is
\* exactly the fixed "Invalid command" text.
C18_InvalidNeverExecuted ==
    \A w \in Workers :
        BadPrefix(w) =>
            /\ ~conn[w].ran
            /\ pc[w] \in {"accepted", "invalid", "except", "finally"}
            /\ result[w] = NoResult
            /\ \A n \in DOMAIN conn[w].sent : conn[w].sent[n].form # "output"
            /\ (pc[w] = "finally" /\ conn[w].peer = "open") =>
                  conn[w].sent = <<[form |-> "invalid", text |-> "Invalid command\n"]>>

\* a rejected request has been answered and its connection is about to be
\* closed
C18_Witness ==
    \E w \in Workers :
        /\ BadPrefix(w)
        /\ pc[w] = "finally"
        /\ conn[w].sent = <<InvalidCommand>>

\* C19: when a connection is about to be closed, exactly one response has
\* been written on it: the output of the command, the "Invalid command"
\* text, or an "Error: ..." text; no exception leaves the worker, whether it
\* was raised by reading the request, by running the command or by writing
\* the response.
C19_ExactlyOneResponse ==
    \A w \in Workers :
        /\ ~conn[w].crashed
        /\ pc[w] = "finally" =>
              /\ Len(conn[w].sent) = 1
              /\ conn[w].sent[1].form \in {"output", "invalid", "error"}
              /\ conn[w].sent[1].form = "invalid" => BadPrefix(w)
              /\ conn[w].sent[1].form = "output" => conn[w].ran
              /\ conn[w].raised = ""

\* C20: whatever happened to the connections (a rejected request, a failed
\* command, an exception in a worker, a client that disconnected), the
\* accept loop is still running, and it accepts a connection whenever a
\* worker is free.
C20_ListenerNeverExits ==
    /\ listener = "listening"
    /\ \A w \in Workers :
          pc[w] = "listening" =>
              ENABLED (\E command \in RelayRequests : start_daemon(w, command))

\* a connection was accepted after the thread of the worker's previous
\* connection had ended with an exception
C20_Witness ==
    \E w \in Workers :
        /\ conn[w].crashed
        /\ pc[w] = "accepted"

\* C24: the construction of a session calls get_all_pipelines a second time
\* exactly when the first call found no pipeline, and never a third time; a
\* construction whose two calls both found none fails.
C24_RetryOnce ==
    LET c == calls[Session]
        built == c # <<>> /\ c[1].name = "get_all_pipelines"
    IN  /\ built =>
              /\ Len(c) = IF c[1].ret = 0 THEN 2 ELSE 1
              /\ \A k \in DOMAIN c : c[k].name = "get_all_pipelines"
        /\ (built /\ c[Len(c)].ret = 0) => pc[Session] = "failed"
        /\ (built /\ c[Len(c)].ret # 0) => pc[Session] = "idle"

\* how many of the driver calls of the current operation have the name
Count(name) ==
    Cardinality({ k \in DOMAIN calls[Session] : calls[Session][k].name = name })

\* C25: a call of load_settings, run_channel, stop or get_experiment_info
\* makes at most one SelectChannel call and at most one call of its own
\* driver command; start makes at most one RunChannel call; and a driver call
\* that returns another flag than 1 is the last driver call of the operation,
\* which then fails.
C25_NoRetry ==
    LET fr == frame[Session]
        c == calls[Session]
    IN  fr.op \in {"load_settings", "run_channel", "stop", "get_experiment_info",
                   "start"} =>
            /\ fr.op # "start" =>
                  \A name \in ActCalls \cup {"SelectChannel"} : Count(name) <= 1
            /\ Count("RunChannel") <= 1
            /\ \A k \in DOMAIN c :
                  c[k].ret # 1 =>
                      /\ k = Len(c)
                      /\ pc[Session] = "done"
                      /\ result[Session].exc \notin {"none", "running", "return"}

\* the texts a daemon may answer a connection with
Responses ==
    {"Invalid command\n"}
        \cup { "\n" \o e : e \in {"", "ValueError: not known as a pipeline"} }
        \cup { "Error: " \o e : e \in {OSError} }

\* C21: when the daemon is not running, send_command logs the remediation
\* diagnostic and ends the process with status 1 without returning a text;
\* when the daemon is running it connects and returns exactly the text the
\* daemon wrote before it closed the connection.
C21_RefusedExitsElseVerbatim ==
    LET c == client[Connection] IN
    /\ listener # "listening" =>
          /\ c.pc \in {"none", "exited"}
          /\ c.returned = <<>>
    /\ c.pc = "exited" =>
          /\ listener # "listening"
          /\ c.status = 1
          /\ c.log = Remediation
          /\ pc[Connection] = "listening"
    /\ c.pc = "returned" =>
          /\ c.eof
          /\ c.status = 0
          /\ Len(c.received) = 1
          /\ c.returned = <<c.received[1]>>
          /\ c.received[1] \in Responses

\* the connection was refused and the process has ended
C21_Witness ==
    /\ client[Connection].pc = "exited"
    /\ client[Connection].status = 1

\* C22: the command the daemon validates and executes is the whole message
\* the client sent, however the stream delivers it.
C22_WholeRequestRead ==
    ( /\ client[Connection].pc = "reading"
      /\ pc[Connection] \notin {"listening", "accepted"} ) =>
        request[Connection] = client[Connection].message

\* the client has not returned yet
Waiting == client[Connection].pc = "reading"

Executing(v) == pc[v] = "new" /\ conn[v].ran

\* the next step of worker w in the relay can be taken
CanStep(w) ==
    /\ pc[w] = "listening" => ENABLED (\E command \in RelayRequests : start_daemon(w, command))
    /\ pc[w] = "accepted" => ENABLED receive_command(w)
    /\ pc[w] = "invalid" => ENABLED send_invalid(w)
    /\ pc[w] = "new" => ENABLED subprocess_run(w)
    /\ pc[w] = "done" => ENABLED send_result(w)
    /\ pc[w] = "except" => ENABLED handle_exception(w)
    /\ pc[w] = "finally" => ENABLED Close(w)

\* while a worker is executing a command, no other worker waits for it
C23_NotBlocked ==
    \A v, w \in Workers : (v # w /\ Executing(v)) => CanStep(w)

\* a step of another worker leaves a worker that is executing as it is
C23_NotDisturbed ==
    \A v \in Workers :
        (Executing(v) /\ \E w \in Workers \ {v} : pc'[w] # pc[w]) =>
            /\ pc'[v] = pc[v]
            /\ conn'[v] = conn[v]
            /\ request'[v] = request[v]

\* C23: while one worker is executing a command, however long that takes,
\* the daemon accepts another connection, and the worker of that connection
\* can read its request, execute it, answer it and close, each step without
\* waiting for the first worker and without changing its state.
C23_WorkersConcurrent == []C23_NotBlocked /\ [][C23_NotDisturbed]_vars

\* a connection has been answered with the output of its command while
\* another worker is executing still
C23_Witness ==
    \E v, w \in Workers :
        /\ v # w
        /\ Executing(v)
        /\ pc[w] = "finally"
        /\ conn[w].ran
        /\ Len(conn[w].sent) = 1
        /\ conn[w].sent[1].form = "output"

====
